---- MODULE Spec2Model ----
(***************************************************************************)
(* Model of the research pipeline of backend/server.js: the handler of     *)
(* POST /api/research, the ResearchAgent methods it calls, the search      *)
(* provider adapters and the in-memory research cache with its eviction    *)
(* timers.                                                                 *)
(*                                                                         *)
(* Strings are sequences of tokens (a token is a TLA+ string standing for  *)
(* one character or one indivisible word); String.includes, trim, split    *)
(* and toLowerCase are computed on these sequences.  JavaScript's          *)
(* undefined is the reserved one-token sequence Undefined.                  *)
(***************************************************************************)
EXTENDS Integers, Sequences, FiniteSets, TLC

\* ------------------------------------------------------------------------
\* JavaScript values and string primitives
\* ------------------------------------------------------------------------

Undefined == <<"<undefined>">>

Range(s) == {s[i] : i \in 1..Len(s)}

Min(a, b) == IF a < b THEN a ELSE b

\* Array.prototype.slice(0, n) / String.prototype.slice(0, n)
Slice(s, n) == SubSeq(s, 1, Min(n, Len(s)))

\* String.prototype.toLowerCase, token by token
LowerTok(c) ==
    CASE c = "A" -> "a"
      [] c = "B" -> "b"
      [] c = "Research" -> "research"
      [] c = "Study" -> "study"
      [] c = "Report" -> "report"
      [] OTHER -> c

toLowerCase(s) == [i \in 1..Len(s) |-> LowerTok(s[i])]

\* String.prototype.trim: strips leading and trailing white space
IsSpace(c) == c = " "

RECURSIVE TrimLeft(_)
TrimLeft(s) == IF s # <<>> /\ IsSpace(Head(s)) THEN TrimLeft(Tail(s)) ELSE s

RECURSIVE TrimRight(_)
TrimRight(s) ==
    IF s # <<>> /\ IsSpace(s[Len(s)]) THEN TrimRight(SubSeq(s, 1, Len(s) - 1)) ELSE s

trim(s) == TrimRight(TrimLeft(s))

\* String.prototype.includes: sub occurs as a contiguous run of s
includes(s, sub) ==
    \E i \in 0..(Len(s) - Len(sub)) : SubSeq(s, i + 1, i + Len(sub)) = sub

\* String.prototype.split(' '): the pieces between single spaces, empty
\* pieces included ("a  b" gives "a", "", "b"; "" gives one empty piece)
RECURSIVE SplitAcc(_, _)
SplitAcc(s, cur) ==
    IF s = <<>> THEN <<cur>>
    ELSE IF Head(s) = " " THEN <<cur>> \o SplitAcc(Tail(s), <<>>)
    ELSE SplitAcc(Tail(s), Append(cur, Head(s)))

split(s) == SplitAcc(s, <<>>)

\* JavaScript truthiness of a string-or-undefined value
Truthy(v) == v # Undefined /\ v # <<>>

\* a || b
OrElse(a, b) == IF Truthy(a) THEN a ELSE b

\* ------------------------------------------------------------------------
\* Completion of a call: a returned value or a thrown exception
\* ------------------------------------------------------------------------

Ret(x) == [threw |-> FALSE, v |-> x]

Throw(x) == [threw |-> TRUE, v |-> x]

\* ------------------------------------------------------------------------
\* JSON values of the analysis object.  val is a sequence of strings: the
\* elements of an array, the one string of a string value, empty otherwise.
\* ------------------------------------------------------------------------

JArr(xs) == [ty |-> "array", val |-> xs]

JStr(x) == [ty |-> "string", val |-> <<x>>]

JNum == [ty |-> "number", val |-> <<>>]

JNull == [ty |-> "null", val |-> <<>>]

JUndef == [ty |-> "undefined", val |-> <<>>]

\* The text of the generative service is a sequence of tokens: prose, an
\* opening brace, a closing brace, or one "key": value member of an object.
Prose == [t |-> "prose", k |-> "", v |-> JUndef]

LBrace == [t |-> "{", k |-> "", v |-> JUndef]

RBrace == [t |-> "}", k |-> "", v |-> JUndef]

Member(key, value) == [t |-> "member", k |-> key, v |-> value]

\* text.match(/\{[\s\S]*\}/): the greedy match runs from the first "{" to
\* the last "}" after it; <<>> stands for null (no match)
jsonMatch(text) ==
    LET opens == {i \in 1..Len(text) : text[i].t = "{"}
    IN  IF opens = {} THEN <<>>
        ELSE LET first == CHOOSE i \in opens : \A j \in opens : i <= j
                 closes == {j \in 1..Len(text) : text[j].t = "}" /\ j > first}
             IN  IF closes = {} THEN <<>>
                 ELSE LET last == CHOOSE j \in closes : \A k \in closes : k <= j
                      IN  SubSeq(text, first, last)

\* The value JSON.parse gives member key of the object: the last member of
\* that name wins, an absent member reads as undefined
MemberOf(inner, key) ==
    LET at == {i \in 1..Len(inner) : inner[i].k = key}
    IN  IF at = {} THEN JUndef
        ELSE inner[CHOOSE i \in at : \A j \in at : j <= i].v

\* JSON.parse of a matched substring: a SyntaxError unless everything
\* between the outer braces is a member
JSONparse(m) ==
    LET inner == SubSeq(m, 2, Len(m) - 1)
        obj == [mainTopic |-> MemberOf(inner, "mainTopic"),
                researchIntent |-> MemberOf(inner, "researchIntent"),
                searchQueries |-> MemberOf(inner, "searchQueries"),
                contentTypes |-> MemberOf(inner, "contentTypes")]
    IN  IF \A i \in 1..Len(inner) : inner[i].t = "member"
        THEN Ret(obj) ELSE Throw(obj)

\* The fallback analysis of analyzeQuery
FallbackAnalysis(userQuery) ==
    [mainTopic |-> JStr(userQuery),
     researchIntent |-> JStr(<<"general">>),
     searchQueries |-> JArr(<<userQuery>>),
     contentTypes |-> JArr(<< <<"articles">>, <<"reports">> >>)]

\* The try block of analyzeQuery.  gen is the outcome of generateContent:
\* gen.ok = FALSE is a rejected call, gen.text the text of a fulfilled one.
AnalyzeTry(gen, userQuery) ==
    IF ~gen.ok THEN Throw(FallbackAnalysis(userQuery))
    ELSE LET m == jsonMatch(gen.text)
         IN  IF m # <<>> THEN JSONparse(m)
             ELSE Ret(FallbackAnalysis(userQuery))

\* analyzeQuery without its catch block: an exception of the try block
\* reaches the caller
analyzeQueryNoCatch(gen, userQuery) == AnalyzeTry(gen, userQuery)

\* ResearchAgent.analyzeQuery: the try block, and the catch block that
\* turns any exception of it into the fallback analysis
analyzeQuery(gen, userQuery) ==
    LET body == AnalyzeTry(gen, userQuery)
    IN  IF body.threw THEN Ret(FallbackAnalysis(userQuery)) ELSE body

\* analysis.searchQueries.slice(0, 3) of the handler: a TypeError when
\* searchQueries is undefined, null or a number; the first three elements of
\* an array; the first three characters of a string, which for..of then
\* walks one by one
SubQueryLimit == 3

\* The loop over all the search queries of the analysis, without slice
SliceQueriesUncapped(analysis) ==
    LET sq == analysis.searchQueries
    IN  CASE sq.ty = "array" -> Ret(sq.val)
          [] sq.ty = "string" ->
               Ret([i \in 1..Len(sq.val[1]) |-> <<sq.val[1][i]>>])
          [] OTHER -> Throw(<<>>)

SliceQueries(analysis) ==
    LET sq == analysis.searchQueries
    IN  CASE sq.ty = "array" -> Ret(Slice(sq.val, SubQueryLimit))
          [] sq.ty = "string" ->
               Ret([i \in 1..Min(SubQueryLimit, Len(sq.val[1])) |-> <<sq.val[1][i]>>])
          [] OTHER -> Throw(<<>>)

\* ------------------------------------------------------------------------
\* Search providers and the normalisation of their hits
\* ------------------------------------------------------------------------

\* A hit of either provider; a field the provider did not send is Undefined
Hit(title, link, snippet, displayLink, displayed_link, date) ==
    [title |-> title, link |-> link, snippet |-> snippet,
     displayLink |-> displayLink, displayed_link |-> displayed_link,
     date |-> date]

\* googleSearch: out.ok = FALSE is a failed axios.get (caught, []);
\* otherwise response.data.items || []
googleSearch(out) ==
    IF ~out.ok THEN <<>>
    ELSE IF out.present THEN out.items ELSE <<>>

\* serpApiSearch: the same with response.data.organic_results
serpApiSearch(out) ==
    IF ~out.ok THEN <<>>
    ELSE IF out.present THEN out.items ELSE <<>>

NullDate == <<"<null>">>

\* The callback without its test of result.link
ProcessResultUntested(result) ==
    << [title |-> result.title,
        url |-> result.link,
        description |-> result.snippet,
        domain |-> result.displayLink,
        publishDate |-> NullDate] >>

\* The callback of searchResults.map: the source of a hit that has a link,
\* <<>> (null) for one that has none.  The branch for SerpApi results has the
\* same condition as the first branch and is never taken, so domain is always
\* read from displayLink; pagemap is not modelled, publishDate is null.
ProcessResult(result) ==
    IF Truthy(result.link)
    THEN << [title |-> result.title,
             url |-> result.link,
             description |-> result.snippet,
             domain |-> result.displayLink,
             publishDate |-> NullDate] >>
    ELSE <<>>

HitLimit == 5

RECURSIVE Flatten(_)
Flatten(ss) == IF ss = <<>> THEN <<>> ELSE Head(ss) \o Flatten(Tail(ss))

\* processedResults.filter(source => source !== null) of
\* searchResults.slice(0, 5).map(...)
ProcessResults(searchResults) ==
    LET top == Slice(searchResults, HitLimit)
    IN  Flatten([i \in 1..Len(top) |-> ProcessResult(top[i])])

\* ------------------------------------------------------------------------
\* ResearchAgent.filterAndRankSources
\* ------------------------------------------------------------------------

credibleDomains ==
    << <<"edu">>, <<"gov">>, <<"org">>,
       <<"scholar", ".", "google", ".", "com">>,
       <<"researchgate", ".", "net">>,
       <<"arxiv", ".", "org">>,
       <<"pubmed", ".", "ncbi", ".", "nlm", ".", "nih", ".", "gov">>,
       <<"nature", ".", "com">>, <<"science", ".", "org">>,
       <<"bbc", ".", "com">>, <<"reuters", ".", "com">>,
       <<"ap", ".", "org">>, <<"npr", ".", "org">>, <<"pbs", ".", "org">> >>

\* source.domain || source.displayLink || '' (a source has no displayLink)
DomainOf(source) == OrElse(OrElse(source.domain, Undefined), <<>>)

\* The filter callback: "keep", "drop", or "throw" when source.title is
\* read as a string (only after the two domain tests failed) and is undefined
FilterSource(source) ==
    LET domain == DomainOf(source)
    IN  IF (\E i \in 1..Len(credibleDomains) : includes(domain, credibleDomains[i]))
           \/ ~includes(domain, <<".", "com">>)
        THEN "keep"
        ELSE IF source.title = Undefined THEN "throw"
        ELSE IF \/ includes(toLowerCase(source.title), <<"research">>)
                \/ includes(toLowerCase(source.title), <<"study">>)
                \/ includes(toLowerCase(source.title), <<"report">>)
        THEN "keep" ELSE "drop"

RECURSIVE FilterSeq(_)
FilterSeq(sources) ==
    IF sources = <<>> THEN <<>>
    ELSE (IF FilterSource(Head(sources)) = "keep" THEN <<Head(sources)>> ELSE <<>>)
         \o FilterSeq(Tail(sources))

\* originalQuery.toLowerCase().split(' ')
Keywords(originalQuery) == split(toLowerCase(originalQuery))

RECURSIVE SumScore(_, _)
SumScore(source, keywords) ==
    IF keywords = <<>> THEN 0
    ELSE LET keyword == Head(keywords)
             titleMatch ==
                 IF includes(toLowerCase(OrElse(source.title, <<>>)), keyword)
                 THEN 2 ELSE 0
             descMatch ==
                 IF includes(toLowerCase(OrElse(OrElse(Undefined, source.description), <<>>)), keyword)
                 THEN 1 ELSE 0
         IN  titleMatch + descMatch + SumScore(source, Tail(keywords))

\* aScore / bScore of the comparator: keywords.reduce(..., 0)
Score(source, originalQuery) == SumScore(source, Keywords(originalQuery))

\* The comparator of finalSources.sort: bScore - aScore
Compare(a, b, originalQuery) == Score(b, originalQuery) - Score(a, originalQuery)

\* An unstable sort: an element is placed before the elements it ties with
RECURSIVE InsertSortedUnstable(_, _, _)
InsertSortedUnstable(x, sorted, originalQuery) ==
    IF sorted = <<>> THEN <<x>>
    ELSE IF Compare(Head(sorted), x, originalQuery) < 0
         THEN <<Head(sorted)>> \o InsertSortedUnstable(x, Tail(sorted), originalQuery)
         ELSE <<x>> \o sorted

\* Array.prototype.sort is stable (the file uses optional chaining, so it
\* runs on Node 14 or later, whose sort is stable for every length): an
\* element is placed after every element the comparator does not order after it
RECURSIVE InsertSorted(_, _, _)
InsertSorted(x, sorted, originalQuery) ==
    IF sorted = <<>> THEN <<x>>
    ELSE IF Compare(Head(sorted), x, originalQuery) <= 0
         THEN <<Head(sorted)>> \o InsertSorted(x, Tail(sorted), originalQuery)
         ELSE <<x>> \o sorted

RECURSIVE SortSources(_, _)
SortSources(sources, originalQuery) ==
    IF sources = <<>> THEN <<>>
    ELSE InsertSorted(sources[Len(sources)],
                      SortSources(SubSeq(sources, 1, Len(sources) - 1), originalQuery),
                      originalQuery)

filterAndRankSources(sources, originalQuery) ==
    IF \E i \in 1..Len(sources) : FilterSource(sources[i]) = "throw"
    THEN Throw(<<>>)
    ELSE LET filtered == FilterSeq(sources)
             finalSources == IF Len(filtered) > 0 THEN filtered ELSE sources
         IN  Ret(SortSources(finalSources, originalQuery))

\* ------------------------------------------------------------------------
\* ResearchAgent.generateResponse
\* ------------------------------------------------------------------------

PromptLimit == 5

TopLimit == 8

\* The sources the prompt is built from: sources.slice(0, 5)
PromptSources(sources) == Slice(sources, PromptLimit)

\* sourcesText: one numbered line per source of the first five, made of its
\* title and of source.snippet || source.description (a source has no
\* snippet)
sourcesText(sources) ==
    [idx \in 1..Len(PromptSources(sources)) |->
        [n |-> idx,
         title |-> PromptSources(sources)[idx].title,
         text |-> PromptSources(sources)[idx].description]]

\* The prompt given to generateContent
SummaryPrompt(sources, originalQuery) ==
    [query |-> originalQuery, sourcesText |-> sourcesText(sources)]

\* The template with the number of sources of the prompt
FallbackResponsePromptCount(sources, originalQuery) ==
    <<"I found ", ToString(Len(PromptSources(sources))),
      " relevant sources for your research on ", "\"">>
    \o originalQuery
    \o <<"\"", ". The sources include academic articles, reports, and credible publications that should provide comprehensive information on this topic.">>

\* The template of the catch block
FallbackResponse(sources, originalQuery) ==
    <<"I found ", ToString(Len(sources)),
      " relevant sources for your research on ", "\"">>
    \o originalQuery
    \o <<"\"", ". The sources include academic articles, reports, and credible publications that should provide comprehensive information on this topic.">>

\* generateResponse with a catch block that lets the exception through
generateResponseRethrow(sources, originalQuery, gen) ==
    IF gen.ok THEN Ret(gen.text) ELSE Throw(<<>>)

\* gen is the outcome of generateContent for the summary prompt
generateResponse(sources, originalQuery, gen) ==
    IF gen.ok THEN Ret(gen.text)
    ELSE Ret(FallbackResponse(sources, originalQuery))

\* ------------------------------------------------------------------------
\* State
\* ------------------------------------------------------------------------

\* Requests the model follows, and the last instant of the model's clock
MaxRequests == 3

MaxTime == 2

\* 60 * 60 * 1000 ms, in ticks of the model's clock
TTL == 2

\* The count the handler passes to both providers
SearchCount == 5

RequestIds == 1..MaxRequests

VARIABLES
    researchCache,  \* the Map: cache key -> cached result
    timers,         \* pending setTimeout callbacks: [key, due]
    now,            \* the clock
    SERPAPI_KEY,    \* process.env.SERPAPI_KEY
    req,            \* per request: the handler's position and locals
    lastResult,     \* history: per cache key, the result last sent with 200
    probe           \* input and output of a function applied on its own

vars == <<researchCache, timers, now, SERPAPI_KEY, req, lastResult, probe>>

\* A response that was not sent yet; keys are the members of the JSON body
NoResponse ==
    [status |-> 0, keys |-> {}, error |-> <<>>, response |-> <<>>,
     sources |-> <<>>, query |-> <<>>, timestamp |-> 0]

\* res.status(s).json({ error })
ErrorBody(s, msg) ==
    [status |-> s, keys |-> {"error"}, error |-> msg, response |-> <<>>,
     sources |-> <<>>, query |-> <<>>, timestamp |-> 0]

\* The catch block's body sent in place of the result
ResultBodyOfFault(result) ==
    [status |-> 500, keys |-> {"error", "response", "sources"},
     error |-> <<"Failed to process research request">>,
     response |-> <<"I apologize, but I encountered an error while researching your query. Please try again with a different search term.">>,
     sources |-> <<>>, query |-> <<>>, timestamp |-> 0]

\* res.json(result) for a result {response, sources, query, timestamp}
ResultBody(result) ==
    [status |-> 200, keys |-> {"response", "sources", "query", "timestamp"},
     error |-> <<>>, response |-> result.response, sources |-> result.sources,
     query |-> result.query, timestamp |-> result.timestamp]

\* The body of the catch block of the handler
FaultBody ==
    [status |-> 500, keys |-> {"error", "response", "sources"},
     error |-> <<"Failed to process research request">>,
     response |-> <<"I apologize, but I encountered an error while researching your query. Please try again with a different search term.">>,
     sources |-> <<>>, query |-> <<>>, timestamp |-> 0]

NewRequest ==
    [pc |-> "new", query |-> <<>>, cacheKey |-> <<>>, subQueries |-> <<>>,
     i |-> 0, allSources |-> <<>>, topSources |-> <<>>, res |-> NoResponse,
     \* history of the request, read by the properties only
     calls |-> <<>>, nCalls |-> 0, allFailed |-> TRUE,
     cacheReads |-> 0, cacheWrites |-> 0, expiredTs |-> -1,
     auth |-> "", hits |-> <<>>, asked |-> JUndef]

NoProbe == [f |-> "none"]

Init ==
    /\ researchCache = {}
    /\ timers = {}
    /\ now = 0
    /\ SERPAPI_KEY \in {Undefined, <<"key">>}
    /\ req = [r \in RequestIds |-> NewRequest]
    /\ lastResult = {}
    /\ probe = NoProbe

\* History of a request: its external calls while it runs (hits is -1 until
\* the call returns, then the length of the list the adapter returned), their
\* number once it responded, whether every call of it failed, the state of
\* its token, the raw result list of every sub-query it processed, and the
\* searchQueries member of the analysis it was given
Call(svc, q, num) == [svc |-> svc, q |-> q, num |-> num, hits |-> -1]

Returned(rq, ok, hits) ==
    [rq EXCEPT !.calls[Len(rq.calls)].hits = hits, !.allFailed = @ /\ ~ok]

\* No setTimeout callback is due: the event loop runs due timers before it
\* hands the next I/O completion to a handler
NoTimerDue == \A t \in timers : t.due > now

\* A response that was sent is delivered, and the exchange closed, before
\* anything else happens
NoneResponded == \A r \in RequestIds : req[r].pc # "responded"

Ready == NoTimerDue /\ NoneResponded

\* The Map as the set of its entries [key, value]
HasKey(map, k) == \E e \in map : e.key = k

\* Map.get
MapGet(map, k) == (CHOOSE e \in map : e.key = k).value

\* Map.delete
MapDelete(map, k) == {e \in map : e.key # k}

\* Map.set
MapSet(map, k, x) == MapDelete(map, k) \cup {[key |-> k, value |-> x]}

\* ------------------------------------------------------------------------
\* The handler of POST /api/research, one action per stretch between awaits
\* ------------------------------------------------------------------------

\* verifyToken that only tests the presence of a token
verifyTokenPresenceOnly(auth) ==
    IF auth = "missing" THEN ErrorBody(401, <<"No token provided">>) ELSE NoResponse

\* verifyToken: auth is "missing" (no Authorization header), "invalid"
\* (jwt.verify throws) or "valid"
verifyToken(auth) ==
    CASE auth = "missing" -> ErrorBody(401, <<"No token provided">>)
      [] auth = "invalid" -> ErrorBody(401, <<"Invalid token">>)
      [] OTHER -> NoResponse

\* The validation without the trim: a blank query passes
QueryMissingNoTrim(query) == ~Truthy(query)

\* !query || query.trim().length === 0
QueryMissing(query) == ~Truthy(query) \/ Len(trim(query)) = 0

\* query.toLowerCase().trim()
CacheKey(query) == trim(toLowerCase(query))

\* The response is sent and the handler returns: its locals are gone
Respond(rq, body) ==
    [rq EXCEPT !.pc = "responded", !.res = body, !.subQueries = <<>>, !.i = 0,
               !.allSources = <<>>, !.topSources = <<>>,
               !.calls = <<>>, !.nCalls = Len(rq.calls)]

\* The catch block of the handler
Fault(rq) == Respond(rq, FaultBody)

\* let searchResults = await googleSearch(searchQuery, 5)
StartSearch(rq, i) ==
    [rq EXCEPT !.pc = "googleSearch", !.i = i,
               !.calls = Append(@, Call("google", rq.subQueries[i], SearchCount))]

\* The fallback test without the check of the key
UseFallbackIgnoringKey(searchResults, key) == Len(searchResults) = 0

\* searchResults.length === 0 && process.env.SERPAPI_KEY
UseFallback(searchResults, key) == Len(searchResults) = 0 /\ Truthy(key)

\* searchResults = await serpApiSearch(searchQuery, 5)
StartFallback(rq) ==
    [rq EXCEPT !.pc = "serpApiSearch",
               !.calls = Append(@, Call("serp", rq.subQueries[rq.i], SearchCount))]

\* Steps 3 and 4 up to the await of generateContent: rank, keep the top 8,
\* build the prompt
RankAndAsk(rq) ==
    LET filteredSources == filterAndRankSources(rq.allSources, rq.query)
    IN  IF filteredSources.threw THEN Fault(rq)
        ELSE [rq EXCEPT !.pc = "generateResponse",
                        !.topSources = Slice(filteredSources.v, TopLimit),
                        !.calls = Append(@, Call("gen", <<>>, 0))]

\* The rest of one iteration of the for loop, from the hits of a provider:
\* push the processed results, then the next sub-query or the ranking
Continue(rq, searchResults) ==
    LET pushed == [rq EXCEPT !.allSources = @ \o ProcessResults(searchResults),
                             !.hits = Append(@, searchResults)]
    IN  IF rq.i < Len(rq.subQueries) THEN StartSearch(pushed, rq.i + 1)
        ELSE RankAndAsk(pushed)

\* History: the timestamp of the result last sent for the key, when its TTL
\* has elapsed at the time of the lookup; -1 otherwise
ExpiredTs(cacheKey) ==
    IF HasKey(lastResult, cacheKey) /\ now >= MapGet(lastResult, cacheKey).timestamp + TTL
    THEN MapGet(lastResult, cacheKey).timestamp ELSE -1

\* Lines 322-340: token, validation, cache check, analyzeQuery called
Receive(r, query, auth) ==
    /\ req[r].pc = "new"
    /\ Ready
    /\ \A p \in RequestIds : p < r => req[p].pc # "new"
    /\ UNCHANGED <<researchCache, timers, now, SERPAPI_KEY, probe>>
    /\ LET rq == [NewRequest EXCEPT !.query = query, !.auth = auth]
           cacheKey == CacheKey(query)
       IN  IF verifyToken(auth).status # 0
           THEN /\ req' = [req EXCEPT ![r] = Respond(rq, verifyToken(auth))]
                /\ UNCHANGED lastResult
           ELSE IF QueryMissing(query)
           THEN /\ req' = [req EXCEPT ![r] =
                       Respond(rq, ErrorBody(400, <<"Query is required">>))]
                /\ UNCHANGED lastResult
           ELSE LET looked == [rq EXCEPT !.cacheKey = cacheKey, !.cacheReads = @ + 1,
                                         !.expiredTs = ExpiredTs(cacheKey)]
                IN  IF HasKey(researchCache, cacheKey)
                    THEN /\ req' = [req EXCEPT ![r] =
                                Respond(looked, ResultBody(MapGet(researchCache, cacheKey)))]
                         /\ lastResult' = MapSet(lastResult, cacheKey, MapGet(researchCache, cacheKey))
                    ELSE /\ req' = [req EXCEPT ![r] =
                                [looked EXCEPT !.pc = "analyzeQuery",
                                               !.calls = Append(@, Call("gen", <<>>, 0))]]
                         /\ UNCHANGED lastResult

\* Lines 340-349: analyzeQuery returns; the loop over the first three search
\* queries starts
AnalyzeReturn(r, gen) ==
    /\ req[r].pc = "analyzeQuery"
    /\ Ready
    /\ UNCHANGED <<researchCache, timers, now, SERPAPI_KEY, lastResult, probe>>
    /\ LET rq == Returned(req[r], gen.ok, 0)
           analysis == analyzeQuery(gen, rq.query)
           queries == SliceQueries(analysis.v)
       IN  req' = [req EXCEPT ![r] =
               IF analysis.threw THEN Fault(rq)
               ELSE IF queries.threw THEN Fault(rq)
               ELSE LET looping == [rq EXCEPT !.subQueries = queries.v,
                                              !.asked = analysis.v.searchQueries]
                    IN  IF queries.v = <<>> THEN RankAndAsk(looping)
                        ELSE StartSearch(looping, 1)]

\* Lines 349-355: googleSearch returns
GoogleReturn(r, out) ==
    /\ req[r].pc = "googleSearch"
    /\ Ready
    /\ UNCHANGED <<researchCache, timers, now, SERPAPI_KEY, lastResult, probe>>
    /\ LET searchResults == googleSearch(out)
           rq == Returned(req[r], out.ok, Len(searchResults))
       IN  req' = [req EXCEPT ![r] =
               IF UseFallback(searchResults, SERPAPI_KEY) THEN StartFallback(rq)
               ELSE Continue(rq, searchResults)]

\* Lines 354-404: serpApiSearch returns
SerpReturn(r, out) ==
    /\ req[r].pc = "serpApiSearch"
    /\ Ready
    /\ UNCHANGED <<researchCache, timers, now, SERPAPI_KEY, lastResult, probe>>
    /\ LET searchResults == serpApiSearch(out)
           rq == Returned(req[r], out.ok, Len(searchResults))
       IN  req' = [req EXCEPT ![r] = Continue(rq, searchResults)]

\* Lines 404-417: generateResponse returns; the result is built, cached with
\* its eviction timer, and sent
GenerateReturn(r, gen) ==
    /\ req[r].pc = "generateResponse"
    /\ Ready
    /\ UNCHANGED <<now, SERPAPI_KEY, probe>>
    /\ LET rq == Returned(req[r], gen.ok, 0)
           aiResponse == generateResponse(rq.topSources, rq.query, gen)
           result == [response |-> aiResponse.v, sources |-> rq.topSources,
                      query |-> rq.query, timestamp |-> now]
       IN  IF aiResponse.threw
           THEN /\ req' = [req EXCEPT ![r] = Fault(rq)]
                /\ UNCHANGED <<researchCache, timers, lastResult>>
           ELSE /\ researchCache' = MapSet(researchCache, rq.cacheKey, result)
                /\ timers' = timers \cup {[key |-> rq.cacheKey, due |-> now + TTL]}
                /\ lastResult' = MapSet(lastResult, rq.cacheKey, result)
                /\ req' = [req EXCEPT ![r] =
                       Respond([rq EXCEPT !.cacheWrites = @ + 1], ResultBody(result))]

\* The client has the response; the exchange is over and nothing of it is
\* kept
Close(r) ==
    /\ req[r].pc = "responded"
    /\ req' = [req EXCEPT ![r] = [NewRequest EXCEPT !.pc = "closed"]]
    /\ UNCHANGED <<researchCache, timers, now, SERPAPI_KEY, lastResult, probe>>

\* Line 415: the callback of setTimeout
TimerFire(t) ==
    /\ t \in timers
    /\ t.due <= now
    /\ NoneResponded
    /\ researchCache' = MapDelete(researchCache, t.key)
    /\ timers' = timers \ {t}
    /\ UNCHANGED <<now, SERPAPI_KEY, req, lastResult, probe>>

\* Time passes, never past a timer that is due
Tick ==
    /\ now < MaxTime
    /\ Ready
    /\ now' = now + 1
    /\ UNCHANGED <<researchCache, timers, SERPAPI_KEY, req, lastResult, probe>>

\* ------------------------------------------------------------------------
\* Inputs: what callers send and what the external services answer
\* ------------------------------------------------------------------------

\* What callers send: a query and the state of the bearer token
Arrive(query, auth) == [query |-> query, auth |-> auth]

\* Outcomes of generateContent
GenFail == [ok |-> FALSE, text |-> <<>>]

GenText(text) == [ok |-> TRUE, text |-> text]

\* Outcomes of a provider's axios.get
SearchFail == [ok |-> FALSE, present |-> FALSE, items |-> <<>>]

SearchEmpty == [ok |-> TRUE, present |-> FALSE, items |-> <<>>]

SearchItems(items) == [ok |-> TRUE, present |-> TRUE, items |-> items]

HitEdu ==
    Hit(<<"a">>, <<"u1">>, <<"a">>, <<"x", ".", "edu">>, Undefined, Undefined)

HitShop ==
    Hit(<<"b">>, <<"u2">>, <<"a">>, <<"shop", ".", "com">>, Undefined, Undefined)

HitNoLink ==
    Hit(<<"a">>, Undefined, <<"a">>, <<"x", ".", "edu">>, Undefined, Undefined)

HitNoTitle ==
    Hit(Undefined, <<"u3">>, <<"a">>, <<"shop", ".", "com">>, Undefined, Undefined)

HitSerp ==
    Hit(<<"A", " ", "Study">>, <<"u1">>, <<"b">>, Undefined, <<"x", ".", "org">>, <<"2020">>)

\* Concurrent requests: a blank query, two spellings of one cache key, another
\* key, and callers without a token or with a bad one.  Their external services answer in the
\* fewest ways that reach every step; Pipeline below follows one request
\* through every kind of answer.
Arrivals ==
    {Arrive(<<" ">>, "valid"), Arrive(<<"a">>, "valid"), Arrive(<<"A", " ">>, "valid"),
     Arrive(<<"b">>, "valid"), Arrive(<<"a">>, "missing"),
     Arrive(<<"a">>, "invalid")}

AnalysisTexts == {GenFail, GenText(<<LBrace, RBrace>>)}

SearchOutcomes == {SearchFail, SearchItems(<<HitEdu>>)}

SummaryTexts == {GenFail}

\* ------------------------------------------------------------------------
\* Specifications
\* ------------------------------------------------------------------------

Step(R, A, GA, SO, GS) ==
    \/ \E r \in R, a \in A : Receive(r, a.query, a.auth)
    \/ \E r \in R, gen \in GA : AnalyzeReturn(r, gen)
    \/ \E r \in R, out \in SO : GoogleReturn(r, out)
    \/ \E r \in R, out \in SO : SerpReturn(r, out)
    \/ \E r \in R, gen \in GS : GenerateReturn(r, gen)
    \/ \E r \in R : Close(r)
    \/ \E t \in timers : TimerFire(t)
    \/ Tick

Next == Step(RequestIds, Arrivals, AnalysisTexts, SearchOutcomes, SummaryTexts)

Spec == Init /\ [][Next]_vars

\* One request, every kind of query and of answer of the external services
PipelineArrivals ==
    {Arrive(Undefined, "valid"), Arrive(<<>>, "valid"), Arrive(<<" ">>, "valid"),
     Arrive(<<" ", " ">>, "valid"), Arrive(<<"a">>, "valid"),
     Arrive(<<" ", "A", " ", "b">>, "valid"),
     Arrive(<<"a">>, "missing"), Arrive(<<"a">>, "invalid")}

QueriesMember(xs) == Member("searchQueries", xs)

PipelineAnalysisTexts ==
    {GenFail,
     GenText(<<Prose>>),
     GenText(<<LBrace, Prose, RBrace>>),
     GenText(<<LBrace, RBrace>>),
     GenText(<<LBrace, QueriesMember(JNull), RBrace>>),
     GenText(<<LBrace, QueriesMember(JStr(<<"a", "b">>)), RBrace>>),
     GenText(<<LBrace, QueriesMember(JArr(<<>>)), RBrace>>),
     GenText(<<Prose, LBrace, QueriesMember(JArr(<< <<"a">> >>)), RBrace, Prose>>),
     GenText(<<LBrace, QueriesMember(JArr(<< <<"a">>, <<"b">>, <<"a", " ", "b">>, <<"c">> >>)), RBrace>>)}

PipelineSearchOutcomes ==
    {SearchFail, SearchEmpty, SearchItems(<<>>),
     SearchItems(<<HitEdu>>),
     SearchItems(<<HitShop, HitNoLink, HitSerp>>),
     SearchItems(<<HitNoTitle>>),
     SearchItems(<<HitShop, HitEdu, HitShop, HitEdu, HitShop, HitEdu>>),
     SearchItems(<<HitEdu, HitSerp, HitEdu, HitSerp, HitEdu, HitSerp>>)}

PipelineSummaryTexts == {GenFail, GenText(<<"summary">>), GenText(<<>>)}

PipelineNext ==
    Step({1}, PipelineArrivals, PipelineAnalysisTexts, PipelineSearchOutcomes,
         PipelineSummaryTexts)

Pipeline == Init /\ [][PipelineNext]_vars

\* The steps the server schedules by itself do happen: a request that
\* arrived is handled, a sent response is delivered, a due timer runs, time
\* passes.  The completion of an external call is up to the service called:
\* axios.get in googleSearch and serpApiSearch is given no timeout, nor is
\* generateContent, and the handler sets no timer of its own for them, so
\* nothing is assumed about AnalyzeReturn, GoogleReturn, SerpReturn and
\* GenerateReturn.
PipelineFair ==
    /\ Pipeline
    /\ WF_vars(\E a \in PipelineArrivals : Receive(1, a.query, a.auth))
    /\ WF_vars(Close(1))
    /\ WF_vars(\E t \in timers : TimerFire(t))
    /\ WF_vars(Tick)

\* ------------------------------------------------------------------------
\* Functions applied on their own: the input is drawn by the initial state,
\* one action applies the function
\* ------------------------------------------------------------------------

MaxTextLen == 3

MaxSources == 3

SeqsUpTo(S, n) == UNION {[1..k -> S] : k \in 0..n}

Idle ==
    /\ researchCache = {}
    /\ timers = {}
    /\ now = 0
    /\ SERPAPI_KEY = Undefined
    /\ req = [r \in RequestIds |-> NewRequest]
    /\ lastResult = {}

SixQueries == << <<"a">>, <<"b">>, <<"c">>, <<"d">>, <<"e">>, <<"f">> >>

TextTokens ==
    {Prose, LBrace, RBrace,
     QueriesMember(JArr(<< <<"a">>, <<"b">> >>)),
     QueriesMember(JArr(SixQueries)),
     QueriesMember(JStr(<<"a">>)),
     Member("mainTopic", JStr(<<"t">>))}

WellFormedText ==
    <<Prose, LBrace, Member("mainTopic", JStr(<<"t">>)),
      Member("researchIntent", JStr(<<"news">>)),
      QueriesMember(JArr(<< <<"a">>, <<"b">>, <<"c">> >>)),
      Member("contentTypes", JArr(<< <<"news">> >>)), RBrace>>

AnalyzeInputs ==
    {GenFail} \cup {GenText(t) : t \in SeqsUpTo(TextTokens, MaxTextLen) \cup {WellFormedText}}

InitAnalyze ==
    /\ Idle
    /\ \E gen \in AnalyzeInputs, query \in {<<"a">>, <<"A", " ">>} :
           probe = [f |-> "analyzeQuery", gen |-> gen, query |-> query,
                    done |-> FALSE, out |-> Ret(FallbackAnalysis(<<>>))]

ApplyAnalyze ==
    /\ probe.f = "analyzeQuery"
    /\ ~probe.done
    /\ probe' = [probe EXCEPT !.done = TRUE, !.out = analyzeQuery(probe.gen, probe.query)]
    /\ UNCHANGED <<researchCache, timers, now, SERPAPI_KEY, req, lastResult>>

SpecAnalyze == InitAnalyze /\ [][ApplyAnalyze]_vars

Source(title, url, description, domain) ==
    [title |-> title, url |-> url, description |-> description,
     domain |-> domain, publishDate |-> NullDate]

SourcePool ==
    {Source(<<"a">>, <<"u1">>, <<"b">>, <<"x", ".", "edu">>),
     Source(<<"a">>, <<"u2">>, <<"c">>, <<"y", ".", "org">>),
     Source(<<"A", " ", "Study">>, <<"u3">>, <<"a">>, <<"shop", ".", "com">>),
     Source(<<"b">>, <<"u4">>, <<"c">>, <<"shop", ".", "com">>),
     Source(Undefined, <<"u5">>, <<"a">>, <<"shop", ".", "com">>),
     Source(<<"c">>, <<"u6">>, Undefined, Undefined),
     Source(<<"b">>, <<"u7">>, <<"b">>, <<"z", ".", "org">>)}

RankQueries ==
    {<<"a">>, <<"A", " ", "b">>, <<"a", " ", " ", "a">>, <<"a", " ", "a", " ", "b">>}

InitRank ==
    /\ Idle
    /\ \E sources \in SeqsUpTo(SourcePool, MaxSources), query \in RankQueries :
           probe = [f |-> "filterAndRankSources", sources |-> sources, query |-> query,
                    done |-> FALSE, out |-> Ret(<<>>)]

ApplyRank ==
    /\ probe.f = "filterAndRankSources"
    /\ ~probe.done
    /\ probe' = [probe EXCEPT !.done = TRUE,
                              !.out = filterAndRankSources(probe.sources, probe.query)]
    /\ UNCHANGED <<researchCache, timers, now, SERPAPI_KEY, req, lastResult>>

SpecRank == InitRank /\ [][ApplyRank]_vars

\* generateResponse on lists of up to MaxPromptSources sources
MaxPromptSources == 6

PromptPool ==
    {Source(<<"a">>, <<"u1">>, <<"b">>, <<"x", ".", "edu">>),
     Source(Undefined, <<"u5">>, Undefined, <<"shop", ".", "com">>)}

InitGenerate ==
    /\ Idle
    /\ \E sources \in SeqsUpTo(PromptPool, MaxPromptSources),
          query \in {<<"a">>, <<"A", " ", "b">>},
          gen \in PipelineSummaryTexts :
           probe = [f |-> "generateResponse", sources |-> sources, query |-> query,
                    gen |-> gen, done |-> FALSE,
                    prompt |-> SummaryPrompt(<<>>, <<>>), out |-> Ret(<<>>)]

ApplyGenerate ==
    /\ probe.f = "generateResponse"
    /\ ~probe.done
    /\ probe' = [probe EXCEPT
                    !.done = TRUE,
                    !.prompt = SummaryPrompt(probe.sources, probe.query),
                    !.out = generateResponse(probe.sources, probe.query, probe.gen)]
    /\ UNCHANGED <<researchCache, timers, now, SERPAPI_KEY, req, lastResult>>

SpecGenerate == InitGenerate /\ [][ApplyGenerate]_vars

\* ------------------------------------------------------------------------
\* getPageMetadata.  A url is a sequence of tokens: a scheme such as
\* "https://", the labels and dots of the host, then "/" and the path.  The
\* body of a page is a sequence of elements: a title element and its text, a
\* description meta element and its content, or anything else.
\* ------------------------------------------------------------------------

Schemes == {"http://", "https://"}

\* new URL(url).hostname: a TypeError unless url is an absolute URL; the
\* host, which the parser lower-cases, runs up to the first "/"
URLhostname(url) ==
    IF Len(url) < 2 \/ url[1] \notin Schemes \/ url[2] = "/" THEN Throw(<<>>)
    ELSE LET slashes == {i \in 2..Len(url) : url[i] = "/"}
             end == IF slashes = {} THEN Len(url)
                    ELSE (CHOOSE i \in slashes : \A j \in slashes : i <= j) - 1
         IN  Ret(toLowerCase(SubSeq(url, 2, end)))

TitleElement(text) == [t |-> "title", text |-> text]

MetaDescription(content) == [t |-> "meta", text |-> content]

OtherElement == [t |-> "other", text |-> <<>>]

\* The first capture of html.match(/<tag...>([^<]+).../i): the text of the
\* first element of the kind that has at least one character; <<>> stands
\* for null, a match is wrapped in a one-element sequence
FirstCapture(html, kind) ==
    LET at == {i \in 1..Len(html) : html[i].t = kind /\ html[i].text # <<>>}
    IN  IF at = {} THEN <<>>
        ELSE <<html[CHOOSE i \in at : \A j \in at : i <= j].text>>

\* Outcomes of axios.get(url, { timeout: 5000 }): a rejection (timeout,
\* network error, non-2xx status), a body that is no string, or a page
FetchFail == [ok |-> FALSE, isString |-> FALSE, html |-> <<>>]

FetchObject == [ok |-> TRUE, isString |-> FALSE, html |-> <<>>]

FetchPage(html) == [ok |-> TRUE, isString |-> TRUE, html |-> html]

\* The catch block: the placeholder, whose domain is computed by a second
\* new URL(url), outside any try
MetadataPlaceholder(url) ==
    IF URLhostname(url).threw THEN Throw(<<>>)
    ELSE Ret([title |-> <<"Unable to fetch title">>,
              description |-> <<"Unable to fetch description">>,
              domain |-> URLhostname(url).v])

\* The try block
MetadataTry(url, fetch) ==
    IF ~fetch.ok \/ ~fetch.isString \/ URLhostname(url).threw THEN Throw(<<>>)
    ELSE LET titleMatch == FirstCapture(fetch.html, "title")
             descMatch == FirstCapture(fetch.html, "meta")
         IN  Ret([title |-> IF titleMatch # <<>> THEN trim(titleMatch[1])
                            ELSE <<"No title">>,
                  description |-> IF descMatch # <<>> THEN trim(descMatch[1])
                                  ELSE <<"No description available">>,
                  domain |-> URLhostname(url).v])

getPageMetadata(url, fetch) ==
    IF MetadataTry(url, fetch).threw THEN MetadataPlaceholder(url)
    ELSE MetadataTry(url, fetch)

MaxHtmlLen == 2

HtmlElements ==
    {TitleElement(<<" ", "T", " ">>), TitleElement(<<>>),
     MetaDescription(<<"d">>), MetaDescription(<<>>), OtherElement}

MetadataUrls ==
    {<<"https://", "x", ".", "org", "/", "p">>, <<"http://", "A", ".", "org">>,
     <<"x", ".", "org", "/", "p">>, <<>>}

InitMetadata ==
    /\ Idle
    /\ \E url \in MetadataUrls,
          fetch \in {FetchFail, FetchObject}
                    \cup {FetchPage(h) : h \in SeqsUpTo(HtmlElements, MaxHtmlLen)} :
           probe = [f |-> "getPageMetadata", url |-> url, fetch |-> fetch,
                    done |-> FALSE, out |-> Throw(<<>>)]

ApplyMetadata ==
    /\ probe.f = "getPageMetadata"
    /\ ~probe.done
    /\ probe' = [probe EXCEPT !.done = TRUE,
                              !.out = getPageMetadata(probe.url, probe.fetch)]
    /\ UNCHANGED <<researchCache, timers, now, SERPAPI_KEY, req, lastResult>>

SpecMetadata == InitMetadata /\ [][ApplyMetadata]_vars

\* ------------------------------------------------------------------------
\* The search loop with its per-hit tasks.  For one sub-query,
\* searchResults.slice(0, 5).map(async ...) starts one task per hit and
\* Promise.all waits for all of them; the tasks settle in any order.  The
\* loop awaits one sub-query before it starts the next.
\* ------------------------------------------------------------------------

\* The array Promise.all resolves to, in the order tasks settled, nulls
\* filtered out
GatheredAsSettled(values, order) ==
    Flatten([j \in 1..Len(order) |-> values[order[j]]])

\* The array Promise.all resolves to holds the value of task i at index i,
\* whatever the order the tasks settled in; nulls filtered out
Gathered(values, order) == Flatten(values)

MaxHits == 3

FirstLists == SeqsUpTo({HitEdu, HitShop, HitNoLink}, MaxHits)

LaterLists == {<<>>, <<HitSerp>>, <<HitShop, HitEdu>>}

InitSearchLoop ==
    /\ Idle
    /\ \E first \in FirstLists, later \in LaterLists, query \in {<<"a">>, <<"b">>} :
           probe = [f |-> "searchLoop", lists |-> <<first, later>>, query |-> query,
                    phase |-> "loop", k |-> 0, values |-> <<>>, pending |-> {},
                    order |-> <<>>, allSources |-> <<>>, out |-> Ret(<<>>)]

\* The next iteration: one task per hit of the first five of its result list
StartTasks ==
    /\ probe.f = "searchLoop"
    /\ probe.phase = "loop"
    /\ probe.k < Len(probe.lists)
    /\ LET top == Slice(probe.lists[probe.k + 1], HitLimit)
       IN  probe' = [probe EXCEPT !.phase = "tasks", !.k = @ + 1,
                                  !.values = [i \in 1..Len(top) |-> <<>>],
                                  !.pending = 1..Len(top), !.order = <<>>]
    /\ UNCHANGED <<researchCache, timers, now, SERPAPI_KEY, req, lastResult>>

\* A task settles with the source of its hit, or with null
SettleTask(i) ==
    /\ probe.f = "searchLoop"
    /\ probe.phase = "tasks"
    /\ i \in probe.pending
    /\ probe' = [probe EXCEPT
                    !.values[i] = ProcessResult(probe.lists[probe.k][i]),
                    !.pending = @ \ {i},
                    !.order = Append(@, i)]
    /\ UNCHANGED <<researchCache, timers, now, SERPAPI_KEY, req, lastResult>>

\* Promise.all resolves: allSources.push(...processedResults.filter(...))
PushResults ==
    /\ probe.f = "searchLoop"
    /\ probe.phase = "tasks"
    /\ probe.pending = {}
    /\ probe' = [probe EXCEPT !.phase = "loop",
                              !.allSources = @ \o Gathered(probe.values, probe.order)]
    /\ UNCHANGED <<researchCache, timers, now, SERPAPI_KEY, req, lastResult>>

\* After the loop: filterAndRankSources(allSources, query)
RankAll ==
    /\ probe.f = "searchLoop"
    /\ probe.phase = "loop"
    /\ probe.k = Len(probe.lists)
    /\ probe' = [probe EXCEPT !.phase = "ranked",
                              !.out = filterAndRankSources(probe.allSources, probe.query)]
    /\ UNCHANGED <<researchCache, timers, now, SERPAPI_KEY, req, lastResult>>

SearchLoopNext ==
    \/ StartTasks
    \/ \E i \in 1..HitLimit : SettleTask(i)
    \/ PushResults
    \/ RankAll

SpecSearchLoop == InitSearchLoop /\ [][SearchLoopNext]_vars

\* ------------------------------------------------------------------------
\* POST /api/register: the users Map and the handler, one action per stretch
\* between awaits.  Date.now() is the clock.
\* ------------------------------------------------------------------------

MaxRegistrations == 2

RegistrationIds == 1..MaxRegistrations

\* A password that is not a string
NumberValue == <<"<number>">>

RegisterBody(email, password, name) ==
    [email |-> email, password |-> password, name |-> name]

RegisterBodies ==
    {RegisterBody(<<"e1">>, <<"p">>, <<"n">>), RegisterBody(<<"e1">>, <<"q">>, <<"m">>),
     RegisterBody(<<"e2">>, <<"p">>, <<"n">>), RegisterBody(Undefined, <<"p">>, <<"n">>),
     RegisterBody(<<"e1">>, NumberValue, <<"n">>)}

Salts == {"s1", "s2"}

NoUser == [id |-> -1, email |-> <<>>, name |-> <<>>]

NoToken == [userId |-> -1, email |-> <<>>]

\* res.status(s).json({ error })
RegisterError(s, msg) ==
    [status |-> s, error |-> msg, message |-> <<>>, token |-> NoToken, user |-> NoUser]

\* res.status(201).json({ message, token, user: { id, email, name } })
RegisterCreated(userId, email, name) ==
    [status |-> 201, error |-> <<>>, message |-> <<"User registered successfully">>,
     token |-> [userId |-> userId, email |-> email],
     user |-> [id |-> userId, email |-> email, name |-> name]]

NewRegistration ==
    [pc |-> "new", body |-> RegisterBody(<<>>, <<>>, <<>>), res |-> RegisterError(0, <<>>)]

\* bcrypt.hash(password, 10): rejects for a password that is no string,
\* else a hash of the password under a fresh salt
bcryptHash(password, salt) ==
    IF password = NumberValue THEN Throw(<<"Illegal arguments">>)
    ELSE Ret(<<"$2a$10$", salt>> \o password)

InitRegister ==
    /\ Idle
    /\ probe = [f |-> "register", users |-> {},
                reg |-> [g \in RegistrationIds |-> NewRegistration]]

\* Lines 249-260: the fields are validated, the email is looked up and
\* bcrypt.hash is called
RegisterReceive(g, body) ==
    /\ probe.f = "register"
    /\ probe.reg[g].pc = "new"
    /\ \A h \in RegistrationIds : h < g => probe.reg[h].pc # "new"
    /\ probe' = [probe EXCEPT !.reg[g] =
           IF ~Truthy(body.email) \/ ~Truthy(body.password) \/ ~Truthy(body.name)
           THEN [pc |-> "responded", body |-> body,
                 res |-> RegisterError(400, <<"All fields are required">>)]
           ELSE IF HasKey(probe.users, body.email)
           THEN [pc |-> "responded", body |-> body,
                 res |-> RegisterError(400, <<"User already exists">>)]
           ELSE [pc |-> "hash", body |-> body, res |-> RegisterError(0, <<>>)]]
    /\ UNCHANGED <<researchCache, timers, now, SERPAPI_KEY, req, lastResult>>

\* Lines 260-281: bcrypt.hash settles; the user is stored and 201 is sent,
\* or the catch block answers 500
HashReturn(g, salt) ==
    /\ probe.f = "register"
    /\ probe.reg[g].pc = "hash"
    /\ LET body == probe.reg[g].body
           hashedPassword == bcryptHash(body.password, salt)
           userId == now
       IN  probe' =
               IF hashedPassword.threw
               THEN [probe EXCEPT !.reg[g].pc = "responded",
                                  !.reg[g].res = RegisterError(500, <<"Registration failed">>)]
               ELSE [probe EXCEPT
                        !.users = MapSet(@, body.email,
                                         [id |-> userId, email |-> body.email,
                                          password |-> hashedPassword.v,
                                          name |-> body.name, createdAt |-> now]),
                        !.reg[g].pc = "responded",
                        !.reg[g].res = RegisterCreated(userId, body.email, body.name)]
    /\ UNCHANGED <<researchCache, timers, now, SERPAPI_KEY, req, lastResult>>

RegisterNext ==
    \/ \E g \in RegistrationIds, body \in RegisterBodies : RegisterReceive(g, body)
    \/ \E g \in RegistrationIds, salt \in Salts : HashReturn(g, salt)
    \/ Tick

SpecRegister == InitRegister /\ [][RegisterNext]_vars

\* ------------------------------------------------------------------------
\* The client (App.js): its React state and its handlers, one action per
\* stretch between awaits.  A state setter given a function applies it to
\* the state at the time the update runs.  The timestamp of a message is
\* left out.
\* ------------------------------------------------------------------------

MaxMessages == 3

MaxValidations == 2

Null == <<"<null>">>

\* What the user types into the query box
TypedQueries == {<<>>, <<" ">>, <<"a">>}

\* How a fetch ends: a 2xx body, another status with a body, or a rejection
FetchOk(data) == [kind |-> "ok", data |-> data]

FetchNotOk(data) == [kind |-> "notOk", data |-> data]

FetchRejected == [kind |-> "rejected", data |-> <<>>]

ResearchAnswers ==
    {FetchOk([response |-> <<"r">>, sources |-> <<>>]),
     FetchNotOk([error |-> <<"Query is required">>]),
     FetchRejected}

NoFlight == [active |-> FALSE, query |-> <<>>, token |-> Null, stale |-> FALSE]

userMessage(content) == [role |-> "user", content |-> content, sources |-> Undefined]

aiMessage(data) ==
    [role |-> "assistant", content |-> data.response, sources |-> data.sources]

errorMessage ==
    [role |-> "assistant",
     content |-> <<"Sorry, I encountered an error while researching. Please try again.">>,
     sources |-> Undefined]

\* The state after the first render; a token found in localStorage starts
\* validateToken.  History: emptied holds from a logout until the next
\* research submission; a flight is stale once a logout ran while it was
\* pending
InitClient ==
    /\ Idle
    /\ \E stored \in {Null, <<"t">>} :
           probe = [f |-> "client", isAuthenticated |-> FALSE, isLoading |-> FALSE,
                    messages |-> <<>>, inputQuery |-> <<>>, token |-> stored,
                    auth |-> FALSE, validations |-> IF stored = Null THEN 0 ELSE 1,
                    flight |-> NoFlight, emptied |-> FALSE]

\* Lines 40-48: the auth form is submitted (its button is disabled while
\* isLoading)
handleAuth ==
    /\ probe.f = "client"
    /\ ~probe.isAuthenticated
    /\ ~probe.isLoading
    /\ probe' = [probe EXCEPT !.isLoading = TRUE, !.auth = TRUE]
    /\ UNCHANGED <<researchCache, timers, now, SERPAPI_KEY, req, lastResult>>

\* Lines 46-67: the auth fetch settles; on success the token is set, which
\* runs the effect that calls validateToken
AuthReturn(ok) ==
    /\ probe.f = "client"
    /\ probe.auth
    /\ ok => probe.validations < MaxValidations
    /\ probe' = IF ok
                THEN [probe EXCEPT !.auth = FALSE, !.isLoading = FALSE,
                                   !.token = <<"t">>, !.isAuthenticated = TRUE,
                                   !.validations = @ + 1]
                ELSE [probe EXCEPT !.auth = FALSE, !.isLoading = FALSE]
    /\ UNCHANGED <<researchCache, timers, now, SERPAPI_KEY, req, lastResult>>

\* Lines 22-38: the fetch of validateToken settles
ValidateReturn(ok) ==
    /\ probe.f = "client"
    /\ probe.validations > 0
    /\ probe' = IF ok
                THEN [probe EXCEPT !.validations = @ - 1, !.isAuthenticated = TRUE]
                ELSE [probe EXCEPT !.validations = @ - 1, !.token = Null]
    /\ UNCHANGED <<researchCache, timers, now, SERPAPI_KEY, req, lastResult>>

\* Line 237: the query box (disabled while isLoading)
setInputQuery(q) ==
    /\ probe.f = "client"
    /\ probe.isAuthenticated
    /\ ~probe.isLoading
    /\ probe.inputQuery # q
    /\ probe' = [probe EXCEPT !.inputQuery = q]
    /\ UNCHANGED <<researchCache, timers, now, SERPAPI_KEY, req, lastResult>>

\* Lines 70-86: the research form is submitted (its button is disabled while
\* isLoading or for a blank query); the user message is appended and the
\* request is sent
handleResearch ==
    /\ probe.f = "client"
    /\ probe.isAuthenticated
    /\ ~probe.isLoading
    /\ trim(probe.inputQuery) # <<>>
    /\ Len(probe.messages) < MaxMessages
    /\ probe' = [probe EXCEPT
                    !.isLoading = TRUE,
                    !.messages = Append(@, userMessage(probe.inputQuery)),
                    !.flight = [active |-> TRUE, query |-> probe.inputQuery,
                                token |-> probe.token, stale |-> FALSE],
                    !.emptied = FALSE]
    /\ UNCHANGED <<researchCache, timers, now, SERPAPI_KEY, req, lastResult>>

\* Lines 79-112: the research fetch settles; the answer or the error message
\* is appended to the messages of that moment
ResearchReturn(answer) ==
    /\ probe.f = "client"
    /\ probe.flight.active
    /\ probe' = [probe EXCEPT
                    !.messages = Append(@, IF answer.kind = "ok" THEN aiMessage(answer.data)
                                           ELSE errorMessage),
                    !.inputQuery = <<>>,
                    !.isLoading = FALSE,
                    !.flight = NoFlight]
    /\ UNCHANGED <<researchCache, timers, now, SERPAPI_KEY, req, lastResult>>

\* Lines 115-120 (the button is rendered while isAuthenticated)
handleLogout ==
    /\ probe.f = "client"
    /\ probe.isAuthenticated
    /\ probe' = [probe EXCEPT
                    !.token = Null,
                    !.isAuthenticated = FALSE,
                    !.messages = <<>>,
                    !.emptied = TRUE,
                    !.flight.stale = probe.flight.active]
    /\ UNCHANGED <<researchCache, timers, now, SERPAPI_KEY, req, lastResult>>

ClientNext ==
    \/ handleAuth
    \/ \E ok \in BOOLEAN : AuthReturn(ok)
    \/ \E ok \in BOOLEAN : ValidateReturn(ok)
    \/ \E q \in TypedQueries : setInputQuery(q)
    \/ handleResearch
    \/ \E answer \in ResearchAnswers : ResearchReturn(answer)
    \/ handleLogout

SpecClient == InitClient /\ [][ClientNext]_vars

\* ------------------------------------------------------------------------
\* Properties
\* ------------------------------------------------------------------------

AnalyzeDone == probe.f = "analyzeQuery" /\ probe.done

\* The text holds no "{" followed, anywhere later, by a "}"
NoBracePair(text) ==
    ~\E i, j \in 1..Len(text) : i < j /\ text[i].t = "{" /\ text[j].t = "}"

\* The run from the first "{" to the last "}" holds something that is not a
\* member of an object
BadJson(text) ==
    \E i, j \in 1..Len(text) :
        /\ i < j /\ text[i].t = "{" /\ text[j].t = "}"
        /\ \A k \in 1..(i - 1) : text[k].t # "{"
        /\ \A k \in (j + 1)..Len(text) : text[k].t # "}"
        /\ \E k \in (i + 1)..(j - 1) : text[k].t # "member"

\* The fallback analysis as the contract words it
ExpectedFallback(query) ==
    [mainTopic |-> [ty |-> "string", val |-> <<query>>],
     researchIntent |-> [ty |-> "string", val |-> << <<"general">> >>],
     searchQueries |-> [ty |-> "array", val |-> <<query>>],
     contentTypes |-> [ty |-> "array", val |-> << <<"articles">>, <<"reports">> >>]]

\* C7: analyzeQuery never raises to its caller, and when the generative call
\* fails, or its text holds no brace-delimited substring, or that substring
\* is not valid JSON, it returns exactly the fallback analysis of its query.
C7_AnalyzeFallback ==
    AnalyzeDone =>
        /\ ~probe.out.threw
        /\ (~probe.gen.ok \/ NoBracePair(probe.gen.text) \/ BadJson(probe.gen.text))
               => probe.out.v = ExpectedFallback(probe.query)

\* A text whose braces hold prose was answered with the fallback analysis
C7_Witness ==
    /\ AnalyzeDone
    /\ probe.gen.ok
    /\ BadJson(probe.gen.text)
    /\ probe.query = <<"A", " ">>
    /\ probe.out.v = ExpectedFallback(probe.query)

\* The QueryAnalysis shape: one to five search queries, and the three other
\* members present
HasShape(a) ==
    /\ a.searchQueries.ty = "array"
    /\ Len(a.searchQueries.val) \in 1..5
    /\ a.mainTopic.ty = "string"
    /\ a.researchIntent.ty = "string"
    /\ a.contentTypes.ty = "array"

\* C8: for every response of the generative service the value analyzeQuery
\* returns has the QueryAnalysis shape (searchQueries a sequence of 1 to 5
\* strings, mainTopic, researchIntent and contentTypes present); output that
\* does not parse into that shape yields the fallback analysis.
C8_AnalysisShape ==
    AnalyzeDone => ~probe.out.threw /\ HasShape(probe.out.v)

RankDone == probe.f = "filterAndRankSources" /\ probe.done

RECURSIVE Select(_, _, _, _)
\* The elements of seq, in order, that score n for query q and are in keep
Select(seq, q, n, keep) ==
    IF seq = <<>> THEN <<>>
    ELSE (IF Score(Head(seq), q) = n /\ Head(seq) \in keep THEN <<Head(seq)>> ELSE <<>>)
         \o Select(Tail(seq), q, n, keep)

NonIncreasing(out, q) ==
    \A i, j \in 1..Len(out) : i < j => Score(out[i], q) >= Score(out[j], q)

\* Sources of one score are in the output in the order they have in the input
KeepsInputOrder(in, out, q) ==
    \A n \in {Score(x, q) : x \in Range(out)} :
        Select(out, q, n, Range(out)) = Select(in, q, n, Range(out))

\* C10: the list filterAndRankSources returns is ordered by non-increasing
\* relevance score, and sources of equal score keep the relative order they
\* have in the input list.
C10_RankedStable ==
    (RankDone /\ ~probe.out.threw) =>
        /\ NonIncreasing(probe.out.v, probe.query)
        /\ KeepsInputOrder(probe.sources, probe.out.v, probe.query)

\* A returned list that the sort has reordered and that holds two different
\* sources of one score below a source of a higher score
C10_Witness ==
    /\ RankDone
    /\ ~probe.out.threw
    /\ Len(probe.out.v) = 3
    /\ probe.out.v # probe.sources
    /\ Score(probe.out.v[1], probe.query) > Score(probe.out.v[2], probe.query)
    /\ Score(probe.out.v[2], probe.query) = Score(probe.out.v[3], probe.query)
    /\ probe.out.v[2] # probe.out.v[3]

\* The query is missing, empty or made of white space only
Blank(query) == query = Undefined \/ \A i \in 1..Len(query) : query[i] = " "

\* A request whose token was accepted (or not judged yet)
Authenticated(rq) == rq.res.status # 401

\* The response is a ResearchResult
IsResult(res) ==
    res.status = 200 /\ res.keys = {"response", "sources", "query", "timestamp"}

\* C1: for a query that is non-empty after trimming, when every external
\* call of the request failed, the response is a ResearchResult with at most
\* 8 sources and a non-empty response text, not an error.
C1_FallbackGuarantee ==
    \A r \in RequestIds :
        (/\ req[r].pc = "responded"
         /\ Authenticated(req[r])
         /\ ~Blank(req[r].query)
         /\ req[r].allFailed)
        => /\ IsResult(req[r].res)
           /\ Len(req[r].res.sources) <= 8
           /\ req[r].res.response # <<>>

\* Both generative calls and both providers were called and failed, and the
\* templated result was sent
C1_Witness ==
    \E r \in RequestIds :
        /\ req[r].pc = "responded"
        /\ req[r].query = <<" ", "A", " ", "b">>
        /\ req[r].allFailed
        /\ req[r].nCalls = 4
        /\ IsResult(req[r].res)
        /\ req[r].res.response = FallbackResponse(<<>>, req[r].query)

\* C2: a request whose query is missing, empty or blank ends with the 400
\* validation error and performs no external call, no cache lookup and no
\* cache write; it is never found at a later step of the pipeline.
C2_BlankQueryRejected ==
    \A r \in RequestIds :
        (/\ req[r].pc \notin {"new", "closed"}
         /\ Authenticated(req[r])
         /\ Blank(req[r].query))
        => /\ req[r].pc = "responded"
           /\ req[r].res.status = 400
           /\ req[r].res.keys = {"error"}
           /\ req[r].res.error # <<>>
           /\ req[r].nCalls = 0
           /\ req[r].calls = <<>>
           /\ req[r].cacheReads = 0
           /\ req[r].cacheWrites = 0

C2_Witness ==
    \E r \in RequestIds :
        /\ req[r].pc = "responded"
        /\ req[r].query = <<" ", " ">>
        /\ req[r].res.status = 400
        /\ req[r].cacheReads = 0

\* C6: the handler answers with a failure only when the query is empty or
\* blank: for every other query and every behaviour of the external
\* services the response is a ResearchResult.
C6_OnlyValidationFails ==
    \A r \in RequestIds :
        (/\ req[r].pc = "responded"
         /\ Authenticated(req[r])
         /\ ~Blank(req[r].query))
        => IsResult(req[r].res)

RECURSIVE GoogleCalls(_)
GoogleCalls(calls) ==
    IF calls = <<>> THEN <<>>
    ELSE (IF Head(calls).svc = "google" THEN <<Head(calls)>> ELSE <<>>)
         \o GoogleCalls(Tail(calls))

\* The provider calls of a running request: the primary is called once for
\* each sub-query reached, in order, with the count 5; the secondary is
\* called exactly after a primary call that gave zero hits while a key is
\* configured, with the same sub-query and count
ProviderOrder(rq) ==
    LET c == rq.calls
        g == GoogleCalls(c)
    IN  /\ Len(g) = rq.i
        /\ \A k \in 1..Len(g) : g[k].q = rq.subQueries[k] /\ g[k].num = SearchCount
        /\ \A j \in 1..Len(c) :
              /\ c[j].svc = "serp" =>
                    /\ j > 1
                    /\ c[j - 1].svc = "google"
                    /\ c[j - 1].hits = 0
                    /\ c[j - 1].q = c[j].q
                    /\ c[j - 1].num = c[j].num
                    /\ Truthy(SERPAPI_KEY)
              /\ (c[j].svc = "google" /\ c[j].hits = 0 /\ Truthy(SERPAPI_KEY)) =>
                    /\ j < Len(c)
                    /\ c[j + 1] = [c[j] EXCEPT !.svc = "serp", !.hits = c[j + 1].hits]
              /\ (c[j].svc = "google" /\ j < Len(c)
                  /\ (c[j].hits > 0 \/ ~Truthy(SERPAPI_KEY))) =>
                    c[j + 1].svc # "serp"

\* C9: for every sub-query the primary provider is queried first; the
\* secondary is queried, with the same sub-query and count, if and only if
\* the primary gave zero hits and a secondary is configured.
C9_ProviderFallback == \A r \in RequestIds : ProviderOrder(req[r])

\* Three sub-queries were searched: one fell back to the secondary, which
\* had hits, and one had hits from the primary
C9_Witness ==
    \E r \in RequestIds :
        /\ req[r].pc = "generateResponse"
        /\ req[r].i = 3
        /\ \E j \in 1..Len(req[r].calls) :
              req[r].calls[j].svc = "serp" /\ req[r].calls[j].hits > 0
        /\ \E j \in 1..Len(req[r].calls) :
              req[r].calls[j].svc = "google" /\ req[r].calls[j].hits > 0

\* C3: a call made after a result was sent for its cache key, before the TTL
\* of that result has elapsed, is answered with that very result (same
\* timestamp) and makes no external call.
C3_RepeatServedFromCache ==
    [][\A r \in RequestIds :
          (/\ req[r].pc = "new"
           /\ req'[r].pc # "new"
           /\ req'[r].cacheReads = 1
           /\ HasKey(lastResult, req'[r].cacheKey)
           /\ now < MapGet(lastResult, req'[r].cacheKey).timestamp + TTL)
          => /\ req'[r].pc = "responded"
             /\ req'[r].res = ResultBody(MapGet(lastResult, req'[r].cacheKey))
             /\ req'[r].nCalls = 0]_vars

\* When a handler may run, no entry of the cache is a full TTL old
NoStaleEntry ==
    NoTimerDue => \A e \in researchCache : now < e.value.timestamp + TTL

\* C4: once the TTL of a cached result has elapsed the entry is gone, no
\* lookup returns a result stored a full TTL or more earlier, and the next
\* call for the key runs the pipeline again and returns a result with a new
\* timestamp.
C4_ExpiredRecomputed ==
    /\ NoStaleEntry
    /\ \A r \in RequestIds :
          req[r].expiredTs >= 0 =>
              /\ req[r].cacheReads = 1
              /\ req[r].pc = "responded" =>
                    /\ IsResult(req[r].res)
                    /\ req[r].res.timestamp > req[r].expiredTs
                    /\ req[r].nCalls > 0
                    /\ req[r].cacheWrites = 1

\* C5: the result last stored for a key stays in the cache, unchanged, until
\* its own TTL has elapsed, under every interleaving of requests and timers.
C5_EntryLivesItsTtl ==
    \A e \in lastResult :
        now < e.value.timestamp + TTL => e \in researchCache

\* The credibility test as the contract words it: the domain holds a
\* credible marker, or holds no ".com", or the title holds "research",
\* "study" or "report" in any case; an absent domain or title is empty
Credible(source) ==
    LET domain == IF source.domain = Undefined THEN <<>> ELSE source.domain
        title == IF source.title = Undefined THEN <<>> ELSE toLowerCase(source.title)
    IN  \/ \E i \in 1..Len(credibleDomains) : includes(domain, credibleDomains[i])
        \/ ~includes(domain, <<".", "com">>)
        \/ \E w \in {"research", "study", "report"} : includes(title, <<w>>)

Kept(sources) == SelectSeq(sources, Credible)

Occurrences(seq, x) == Cardinality({i \in 1..Len(seq) : seq[i] = x})

\* Two lists hold the same elements, each as often
SameElements(a, b) ==
    /\ Len(a) = Len(b)
    /\ \A x \in Range(a) \cup Range(b) : Occurrences(a, x) = Occurrences(b, x)

\* C11: for a non-empty list filterAndRankSources returns a non-empty list:
\* the whole input in scored order when the credibility test keeps no source,
\* exactly the kept sources when it keeps at least one.
C11_NeverFilteredToEmpty ==
    (RankDone /\ probe.sources # <<>>) =>
        /\ ~probe.out.threw
        /\ probe.out.v # <<>>
        /\ Kept(probe.sources) = <<>> =>
              /\ SameElements(probe.out.v, probe.sources)
              /\ NonIncreasing(probe.out.v, probe.query)
        /\ Kept(probe.sources) # <<>> =>
              SameElements(probe.out.v, Kept(probe.sources))

GenerateDone == probe.f = "generateResponse" /\ probe.done

\* C12: generateResponse builds its prompt from the first 5 sources at most,
\* never raises, and when the generative call fails it returns a non-empty
\* text that holds the number of sources it was given and the query as given.
C12_SummaryFallback ==
    GenerateDone =>
        /\ ~probe.out.threw
        /\ probe.prompt.query = probe.query
        /\ Len(probe.prompt.sourcesText) <= 5
        /\ Len(probe.prompt.sourcesText) <= Len(probe.sources)
        /\ Len(probe.sources) <= 5 => Len(probe.prompt.sourcesText) = Len(probe.sources)
        /\ \A i \in 1..Len(probe.prompt.sourcesText) :
              /\ probe.prompt.sourcesText[i].n = i
              /\ probe.prompt.sourcesText[i].title = probe.sources[i].title
              /\ probe.prompt.sourcesText[i].text = probe.sources[i].description
        /\ ~probe.gen.ok =>
              /\ probe.out.v # <<>>
              /\ includes(probe.out.v, <<ToString(Len(probe.sources))>>)
              /\ includes(probe.out.v, <<"\"">> \o probe.query \o <<"\"">>)

\* Six sources were given and the call failed: five went into the prompt and
\* the text says six
C12_Witness ==
    /\ GenerateDone
    /\ ~probe.gen.ok
    /\ Len(probe.sources) = 6
    /\ Len(probe.prompt.sourcesText) = 5
    /\ probe.query = <<"A", " ", "b">>
    /\ includes(probe.out.v, <<"6">>)

MetadataDone == probe.f = "getPageMetadata" /\ probe.done

\* C13: getPageMetadata never raises: for every url, absolute or not, and
\* every outcome of the fetch it returns a record of title, description and
\* domain, and when the fetch fails or the body cannot be scanned that record
\* is the placeholder whose domain is the hostname of the url.
C13_MetadataNeverRaises ==
    MetadataDone =>
        /\ ~probe.out.threw
        /\ DOMAIN probe.out.v = {"title", "description", "domain"}
        /\ (~probe.fetch.ok \/ ~probe.fetch.isString) =>
              /\ probe.out.v.title = <<"Unable to fetch title">>
              /\ probe.out.v.description = <<"Unable to fetch description">>
              /\ probe.out.v.domain = URLhostname(probe.url).v

HasLink(hit) == hit.link # Undefined /\ hit.link # <<>>

\* The links, in order, of the hits with a link among the first five of
\* every raw result list
RECURSIVE LinksOf(_)
LinksOf(lists) ==
    IF lists = <<>> THEN <<>>
    ELSE LET first == SubSeq(Head(lists), 1, IF Len(Head(lists)) > 5 THEN 5 ELSE Len(Head(lists)))
             linked == SelectSeq(first, HasLink)
         IN  [i \in 1..Len(linked) |-> linked[i].link] \o LinksOf(Tail(lists))

Urls(sources) == [i \in 1..Len(sources) |-> sources[i].url]

SawHitWithoutLink(rq) ==
    \E k \in 1..Len(rq.hits) : \E i \in 1..Len(rq.hits[k]) : ~HasLink(rq.hits[k][i])

\* C14: a raw hit without link never becomes a source (every source
\* collected, ranked or returned has a url), the hits with a link of the same
\* result list do become sources, in order, and a request that saw a hit
\* without link fails only for a hit with a link (one that has no title).
C14_NoLinkHitDropped ==
    \A r \in RequestIds :
        /\ \A x \in Range(req[r].allSources) \cup Range(req[r].topSources)
                    \cup Range(req[r].res.sources) :
              x.url # Undefined /\ x.url # <<>>
        /\ req[r].pc \in {"googleSearch", "serpApiSearch", "generateResponse"} =>
              Urls(req[r].allSources) = LinksOf(req[r].hits)
        /\ (req[r].pc = "responded" /\ req[r].res.status = 500 /\ SawHitWithoutLink(req[r])) =>
              \E k \in 1..Len(req[r].hits) : \E i \in 1..Len(req[r].hits[k]) :
                  HasLink(req[r].hits[k][i]) /\ req[r].hits[k][i].title = Undefined

\* A result list held a hit without link between two hits with one; the
\* request returned a result whose sources include the hit after it
C14_Witness ==
    \E r \in RequestIds :
        /\ req[r].pc = "responded"
        /\ IsResult(req[r].res)
        /\ \E k \in 1..Len(req[r].hits) : req[r].hits[k] = <<HitShop, HitNoLink, HitSerp>>
        /\ \E i \in 1..Len(req[r].res.sources) : req[r].res.sources[i].url = HitSerp.link

\* The request passed validation and waits for an external call
Awaiting(rq) ==
    rq.pc \in {"analyzeQuery", "googleSearch", "serpApiSearch", "generateResponse"}

\* C15: every request that passed validation eventually sends a response,
\* whether or not the external call it waits for ever answers.
C15_EventuallyResponds ==
    \A r \in RequestIds : Awaiting(req[r]) ~> (req[r].pc = "responded")

\* Request r sends its response in this step
Sends(r) == req[r].pc # "responded" /\ req'[r].pc = "responded"

\* C16: the step in which a request sends an error response (400, 401 or
\* 500) leaves the cache and its timers as they are; an entry enters the
\* cache only in the step in which a request sends that very result with 200
\* after generateResponse, under the request's cache key; and every cache
\* value has response, sources, query and timestamp.
C16_ErrorsLeaveCache ==
    [][/\ \A r \in RequestIds :
             (Sends(r) /\ req'[r].res.status # 200) =>
                 /\ researchCache' = researchCache
                 /\ timers' = timers
                 /\ req'[r].cacheWrites = 0
       /\ \A e \in researchCache' \ researchCache :
             \E r \in RequestIds :
                 /\ Sends(r)
                 /\ req[r].pc = "generateResponse"
                 /\ e.key = req[r].cacheKey
                 /\ req'[r].res.status = 200
                 /\ req'[r].res.response = e.value.response
                 /\ req'[r].res.sources = e.value.sources
                 /\ req'[r].res.query = e.value.query
                 /\ req'[r].res.timestamp = e.value.timestamp
                 /\ req'[r].cacheWrites = 1
       /\ \A e \in researchCache' :
             DOMAIN e.value = {"response", "sources", "query", "timestamp"}]_vars

\* A request answered 500 while the cache held a result for its own key,
\* stored by a concurrent request
C16_Witness ==
    \E r \in RequestIds :
        /\ req[r].pc = "responded"
        /\ req[r].res.status = 500
        /\ req[r].cacheWrites = 0
        /\ HasKey(researchCache, req[r].cacheKey)

\* C17: a request without token, or with a token that fails verification,
\* is answered with 401 and an error body only; it looks nothing up in the
\* cache, makes no external call and writes nothing to the cache, and is
\* never found at a step of the pipeline.
C17_UnauthenticatedRejected ==
    \A r \in RequestIds :
        (req[r].auth \in {"missing", "invalid"}) =>
            /\ req[r].pc = "responded"
            /\ req[r].res.status = 401
            /\ req[r].res.keys = {"error"}
            /\ req[r].res.response = <<>>
            /\ req[r].res.sources = <<>>
            /\ req[r].calls = <<>>
            /\ req[r].nCalls = 0
            /\ req[r].cacheReads = 0
            /\ req[r].cacheWrites = 0

\* A caller with a bad token asked for a query whose result is in the cache
C17_Witness ==
    \E r \in RequestIds :
        /\ req[r].pc = "responded"
        /\ req[r].auth = "invalid"
        /\ req[r].query = <<"a">>
        /\ req[r].res.status = 401
        /\ HasKey(researchCache, <<"a">>)

\* No url occurs twice within one raw result list
DistinctWithinLists(rq) ==
    \A k \in 1..Len(rq.hits) : \A i, j \in 1..Len(rq.hits[k]) :
        rq.hits[k][i].link = rq.hits[k][j].link => i = j

\* C18: the sources of a returned result hold no url twice, also when
\* several sub-queries of the request returned the same url (each result list
\* by itself holding no url twice).
C18_NoDuplicateUrls ==
    \A r \in RequestIds :
        (req[r].pc = "responded" /\ IsResult(req[r].res) /\ DistinctWithinLists(req[r])) =>
            \A i, j \in 1..Len(req[r].res.sources) :
                req[r].res.sources[i].url = req[r].res.sources[j].url => i = j

\* The set of keywords of a query: the maximal runs without white space of
\* the case-folded query
Words(query) ==
    LET q == toLowerCase(query)
    IN  {SubSeq(q, i, j) : i \in 1..Len(q), j \in 1..Len(q)} \cap
        {w \in Seq({q[k] : k \in 1..Len(q)} \ {" "}) :
            /\ w # <<>>
            /\ \E i \in 1..Len(q) :
                  /\ i + Len(w) - 1 <= Len(q)
                  /\ SubSeq(q, i, i + Len(w) - 1) = w
                  /\ (i = 1 \/ q[i - 1] = " ")
                  /\ (i + Len(w) - 1 = Len(q) \/ q[i + Len(w)] = " ")}

RECURSIVE SumOver(_, _)
\* The sum over the keywords in ws of 2 for a keyword in the title plus 1
\* for a keyword in the description
SumOver(ws, source) ==
    IF ws = {} THEN 0
    ELSE LET w == CHOOSE x \in ws : TRUE
             title == IF source.title = Undefined THEN <<>> ELSE toLowerCase(source.title)
             description == IF source.description = Undefined THEN <<>>
                            ELSE toLowerCase(source.description)
         IN  (IF includes(title, w) THEN 2 ELSE 0)
             + (IF includes(description, w) THEN 1 ELSE 0)
             + SumOver(ws \ {w}, source)

SetScore(source, query) == SumOver(Words(query), source)

\* C19: the order filterAndRankSources gives is the order of the score
\* summed over the set of distinct keywords of the query: no source comes
\* before one of a higher set-based score, whatever keywords the query
\* repeats and whatever spaces it doubles.
C19_SetBasedScoreOrder ==
    (RankDone /\ ~probe.out.threw) =>
        \A i, j \in 1..Len(probe.out.v) :
            i < j => SetScore(probe.out.v[i], probe.query) >= SetScore(probe.out.v[j], probe.query)

\* C20: the filter keeps a source exactly when its domain holds a credible
\* marker, or holds no ".com", or its title holds "research", "study" or
\* "report" in any case; and it raises for no source, one without title or
\* without domain included.
C20_FilterKeepsCredible ==
    RankDone =>
        /\ \A i \in 1..Len(probe.sources) :
              /\ FilterSource(probe.sources[i]) # "throw"
              /\ FilterSource(probe.sources[i]) = "keep" <=> Credible(probe.sources[i])
        /\ ~probe.out.threw

CallsTo(rq, svc) == Cardinality({j \in 1..Len(rq.calls) : rq.calls[j].svc = svc})

\* The queries searched so far by request rq, in the order of the calls
Searched(rq) ==
    LET at == {j \in 1..Len(rq.calls) : rq.calls[j].svc = "google"}
        nth(k) == CHOOSE j \in at : Cardinality({m \in at : m <= j}) = k
    IN  [k \in 1..Cardinality(at) |-> rq.calls[nth(k)].q]

\* The caps of a running request: the queries searched are the first ones
\* of the analysis, three at most, in its order; no provider is called twice
\* for one of them; no result list adds more than five sources; the
\* generative service is called once for the analysis and once for the
\* summary; the sources kept for the response are the first eight of the
\* ranked list
WithinCaps(rq) ==
    /\ Len(Searched(rq)) <= 3
    /\ rq.asked.ty = "array" =>
          /\ Len(Searched(rq)) <= Len(rq.asked.val)
          /\ \A k \in 1..Len(Searched(rq)) : Searched(rq)[k] = rq.asked.val[k]
    /\ CallsTo(rq, "serp") <= CallsTo(rq, "google")
    /\ \A j \in 1..Len(rq.calls) :
          rq.calls[j].svc = "serp" =>
              j > 1 /\ rq.calls[j - 1].svc = "google" /\ rq.calls[j - 1].q = rq.calls[j].q
    /\ CallsTo(rq, "gen") <= 2
    /\ Len(rq.allSources) <= 5 * Len(rq.hits)
    /\ Len(rq.hits) <= 3
    /\ Len(rq.allSources) <= 15
    /\ rq.nCalls <= 8
    /\ rq.pc = "generateResponse" =>
          /\ rq.asked.ty = "array" =>
                Len(Searched(rq)) = (IF Len(rq.asked.val) < 3 THEN Len(rq.asked.val) ELSE 3)
          /\ LET ranked == filterAndRankSources(rq.allSources, rq.query).v
             IN  rq.topSources =
                     SubSeq(ranked, 1, IF Len(ranked) < 8 THEN Len(ranked) ELSE 8)

\* C21: every request stays within the caps at every step, and the sources
\* of the result it returns are the ones kept after the ranking.
C21_PipelineCaps ==
    /\ [](\A r \in RequestIds : WithinCaps(req[r]))
    /\ [][\A r \in RequestIds :
              (Sends(r) /\ req[r].pc = "generateResponse" /\ req'[r].res.status = 200)
                  => req'[r].res.sources = req[r].topSources]_vars

\* The analysis gave four queries, three were searched, fifteen sources were
\* handed to the ranker and eight of them kept
C21_Witness ==
    \E r \in RequestIds :
        /\ req[r].pc = "generateResponse"
        /\ Len(req[r].asked.val) = 4
        /\ Len(Searched(req[r])) = 3
        /\ Len(req[r].allSources) = 15
        /\ Len(req[r].topSources) = 8

\* The hits with a link, in order, among the first five of every raw result
\* list
RECURSIVE LinkedOf(_)
LinkedOf(lists) ==
    IF lists = <<>> THEN <<>>
    ELSE LET first == SubSeq(Head(lists), 1, IF Len(Head(lists)) > 5 THEN 5 ELSE Len(Head(lists)))
         IN  SelectSeq(first, HasLink) \o LinkedOf(Tail(lists))

\* C22: every source made from a hit has a domain that is a string: the
\* displayLink of a primary hit or the displayed_link of a secondary hit when
\* the provider sent one; no source handed to the ranker has an undefined
\* domain.
C22_SourceHasDomain ==
    \A r \in RequestIds :
        (/\ req[r].pc \in {"googleSearch", "serpApiSearch", "generateResponse"}
         /\ Len(req[r].allSources) = Len(LinkedOf(req[r].hits)))
        => \A k \in 1..Len(req[r].allSources) :
              LET hit == LinkedOf(req[r].hits)[k]
                  domain == req[r].allSources[k].domain
              IN  /\ domain # Undefined
                  /\ hit.displayLink # Undefined => domain = hit.displayLink
                  /\ (hit.displayLink = Undefined /\ hit.displayed_link # Undefined)
                        => domain = hit.displayed_link

\* The candidates, in order, that the first n result lists give when every
\* list is processed hit by hit
RECURSIVE InOrder(_, _)
InOrder(lists, n) ==
    IF n = 0 THEN <<>> ELSE InOrder(lists, n - 1) \o ProcessResults(lists[n])

\* C23: whatever the order in which the per-hit tasks settle, the candidate
\* list is ordered by sub-query and then by the provider's hit order, and
\* the ranked output is the one of that list.
C23_DeterministicRecombination ==
    probe.f = "searchLoop" =>
        /\ probe.phase \in {"loop", "ranked"} =>
              /\ Len(probe.allSources) = Len(LinkedOf(SubSeq(probe.lists, 1, probe.k)))
              /\ \A n \in 1..Len(probe.allSources) :
                    LET hit == LinkedOf(SubSeq(probe.lists, 1, probe.k))[n]
                    IN  /\ probe.allSources[n].url = hit.link
                        /\ probe.allSources[n].title = hit.title
                        /\ probe.allSources[n].description = hit.snippet
              /\ probe.allSources = InOrder(probe.lists, probe.k)
        /\ probe.phase = "ranked" =>
              probe.out = filterAndRankSources(InOrder(probe.lists, Len(probe.lists)), probe.query)

\* Two tasks with different sources settled in the reverse of the hit order
\* and the candidates were ranked
C23_Witness ==
    /\ probe.f = "searchLoop"
    /\ probe.phase = "ranked"
    /\ ~probe.out.threw
    /\ Len(probe.order) = 2
    /\ probe.order[1] > probe.order[2]
    /\ probe.values[1] # <<>>
    /\ probe.values[2] # <<>>
    /\ probe.values[1] # probe.values[2]
    /\ Len(probe.allSources) >= 3

\* The entries of a map under one key
EntriesOf(map, k) == {e \in map : e.key = k}

\* Two requests run the pipeline for one cache key at the same time
Racing(r, s) ==
    /\ r # s
    /\ req[r].pc \in {"analyzeQuery", "googleSearch", "serpApiSearch", "generateResponse"}
    /\ req[s].pc \in {"analyzeQuery", "googleSearch", "serpApiSearch", "generateResponse"}
    /\ req[r].cacheKey = req[s].cacheKey

\* A request that races another for its key answers with the result it
\* computed itself: its own query and sources, stamped when it finished
OwnResultSent ==
    [][\A r, s \in RequestIds :
          (Racing(r, s) /\ Sends(r))
              => /\ req[r].pc = "generateResponse"
                 /\ req'[r].res.status = 200
                 /\ req'[r].res.query = req[r].query
                 /\ req'[r].res.sources = req[r].topSources
                 /\ req'[r].res.timestamp = now
                 /\ req'[r].cacheReads = 1
                 /\ req'[r].cacheWrites = 1
                 /\ EntriesOf(researchCache', req[r].cacheKey) =
                        {[key |-> req[r].cacheKey,
                          value |-> [response |-> req'[r].res.response,
                                     sources |-> req[r].topSources,
                                     query |-> req[r].query,
                                     timestamp |-> now]]}]_vars

\* Until the TTL of the result stored last for a key has elapsed, the cache
\* holds for the key that result and nothing else
LastStoredHeld ==
    \A e \in lastResult :
        now < e.value.timestamp + TTL => EntriesOf(researchCache, e.key) = {e}

\* The entry of a key changes only when a request for that key stores or a
\* timer of that key fires, and a cached answer is the entry of the
\* request's own key
KeysIsolated ==
    [][/\ \A k \in {e.key : e \in researchCache \cup researchCache'} :
             EntriesOf(researchCache', k) # EntriesOf(researchCache, k)
                 => \/ \E r \in RequestIds :
                          /\ req[r].pc = "generateResponse"
                          /\ req[r].cacheKey = k
                          /\ Sends(r)
                    \/ \E t \in timers : t.key = k /\ t \notin timers'
       /\ \A r \in RequestIds :
             (req[r].pc = "new" /\ Sends(r) /\ req'[r].res.status = 200)
                 => \E e \in researchCache :
                       /\ e.key = trim(toLowerCase(req'[r].query))
                       /\ req'[r].res = ResultBody(e.value)]_vars

\* C24: two requests for one normalized query that both missed the cache
\* each answer with their own computed result; the cache then holds for the
\* key the result stored last; requests for different normalized queries
\* never read or overwrite each other's entries.
C24_LastWriterWins ==
    /\ OwnResultSent
    /\ []LastStoredHeld
    /\ KeysIsolated

\* Registrations answered 201 for an email
Registered(email) ==
    {g \in RegistrationIds :
        probe.reg[g].res.status = 201 /\ probe.reg[g].body.email = email}

\* C25: for every email at most one registration is answered 201, under
\* every interleaving; a complete registration that arrives for an email
\* already answered 201 is answered 400 "User already exists"; the stored
\* record of an email is never replaced.
C25_OneRegistrationPerEmail ==
    /\ [](probe.f = "register" =>
             \A g, h \in RegistrationIds :
                 (g \in Registered(probe.reg[g].body.email)
                    /\ h \in Registered(probe.reg[g].body.email)) => g = h)
    /\ [][probe.f = "register" =>
             /\ \A e \in probe.users : e \in probe'.users
             /\ \A g \in RegistrationIds :
                   (/\ probe.reg[g].pc = "new"
                    /\ probe'.reg[g].pc # "new"
                    /\ Registered(probe'.reg[g].body.email) # {}
                    /\ probe'.reg[g].body.password # Undefined
                    /\ probe'.reg[g].body.name # Undefined)
                       => probe'.reg[g].res.error = <<"User already exists">>]_vars

\* C26: from handleLogout until the next research submission the messages
\* list is empty, and no answer or error message of a request that was in
\* flight at a logout is appended.
C26_LogoutClearsMessages ==
    /\ [](probe.f = "client" => (probe.emptied => probe.messages = <<>>))
    /\ [][(probe.f = "client" /\ probe.flight.active /\ probe.flight.stale
              /\ ~probe'.flight.active)
             => probe'.messages = probe.messages]_vars

====
